---- MODULE Spec2Model ----
(***************************************************************************)
(* Model of the image load cache of egui_with_background                   *)
(* (src/src/image.rs) and of the part of the event loop that drives it     *)
(* (src/src/lib.rs): the process-wide CACHE map guarded by a mutex, the    *)
(* reference-counted LoadContext objects, the background load tasks        *)
(* (load_image_async), finish_load on the render loop and cleanup.         *)
(*                                                                         *)
(* Threads: the caller threads of Callers (code that calls get_context and *)
(* reads the LoadContext it got), one background task per spawned load,    *)
(* and the render loop (finish_load and cleanup).  A step of the model is  *)
(* one atomic step of one thread: a critical section of the CACHE mutex is *)
(* entered in one step and left in another.  LoadContext::accessed reads   *)
(* the clock and then writes an unsynchronised Cell: in the mutators       *)
(* set_error and set_texture_id these are two steps, so that another       *)
(* thread may write the Cell in between; a caller's snapshot read is one.  *)
(* Time is counted in seconds and advances TickSecs at a time.             *)
(***************************************************************************)
EXTENDS Integers, FiniteSets, Sequences

\* ---------------------------------------------------------------- bounds
\* LoadContext objects that may ever be created.
MaxObj == 2
\* Clock ticks of a run.
MaxTicks == 2
\* Seconds the clock advances per tick.
TickSecs == 60

\* A clone of a ToUIImage is delivered only while fewer textures than this
\* have been allocated.
MaxAlloc == 2

\* ------------------------------------------------------ program constants
\* Duration::from_secs(60) of cleanup.
StaleSecs == 60

\* ------------------------------------------------------------- universes
Keys == {"a", "b"}
Callers == {"c1", "c2"}
Objs == 1 .. MaxObj
\* Absent map entry / Option::None for an object or a texture id.
None == 0
Render == "render"
NoOwner == "free"

\* The messages of a failed load, by class: what https_get returns as Err
\* (the cause it formats in is left out), and what a failed decode is
\* reported as.
FetchErrors == {"Could not download image"}
DecodeError == "Could not decode image"
NoError == ""

VARIABLES
    now,            \* Instant::now(), in seconds
    cache,          \* CACHE: Key -> object id, or None
    lock,           \* owner of the CACHE mutex
    nobj,           \* LoadContext objects created so far
    state,          \* Inner.state of each object
    last_access,    \* Inner.last_access of each object
    pc,             \* position of each caller thread
    cur,            \* the call a caller thread is in
    held,           \* LoadContext clones each caller holds
    task,           \* the background load task of each object
    msgs,           \* ToUIImage messages in flight to the event loop
    rpc,            \* position of the render loop
    rcur,           \* finish_load in progress on the render loop
    keys_to_remove, \* cleanup's keys_to_remove
    alloc,          \* alloc[h]: the object texture h was allocated for
    freed,          \* the free_texture calls, in order: [tex, obj]
    spawned,        \* the start_loading_image calls: [key, gen, obj]
    returned,       \* what get_context calls returned: [key, gen, obj]
    gen,            \* removals of each key from the cache so far
    skipped,        \* objects cleanup removed but could not reclaim
    due,            \* entries stale and unshared when the pass began
    retry           \* skipped objects unshared when the pass began

vars == << now, cache, lock, nobj, state, last_access, pc, cur, held, task, msgs, rpc, rcur, keys_to_remove, alloc,
           freed, spawned, returned, gen, skipped, due, retry >>

\* ------------------------------------------------------- LoadingStatus
Loading == [tag |-> "Loading", tex |-> None, err |-> NoError]
Loaded(id) == [tag |-> "Loaded", tex |-> id, err |-> NoError]
Error(e) == [tag |-> "Error", tex |-> None, err |-> e]

\* LoadingStatus::as_error: Some(message) for Error, else None (NoError).
as_error(st) == IF st.tag = "Error" THEN st.err ELSE NoError

\* LoadingStatus::as_texture: Some(id) for Loaded, else None.
as_texture(st) == IF st.tag = "Loaded" THEN st.tex ELSE None

\* ------------------------------------------------------------ ownership
\* The holders of a clone of object o's Arc other than the cache map.
Holders(o) ==
    {c \in Callers : o \in held[c]}
        \cup (IF task[o].pc \in {"fetch", "decode", "set_error"}
              THEN {"task"} ELSE {})
        \cup (IF o \in msgs THEN {"msg"} ELSE {})
        \cup (IF rpc = "finish_load" /\ rcur.obj = o THEN {Render} ELSE {})

\* Mutant: the reference is reclaimed whoever else holds the object.
try_unwrap_always(o) == TRUE

\* Arc::try_unwrap(val.0) on the reference taken out of the map: Ok only
\* when that reference is the only one.
try_unwrap(o) == Holders(o) = {}

\* Mutant: the map is entered without waiting for the mutex.
CanLockAlways(l) == TRUE

\* CACHE.lock(): the mutex can be taken when nobody owns it.
CanLock(l) == l = NoOwner

\* Mutant: an entry is stale from exactly 60 s on.
IsStaleInclusive(t, n) == n - t >= StaleSecs

\* last_access.get().elapsed() > Duration::from_secs(60)
IsStale(t, n) == n - t > StaleSecs

NoCall == [key |-> "", obj |-> None]
NoTask == [pc |-> "none", key |-> "", err |-> NoError, t |-> 0]
NoFinish == [obj |-> None, tex |-> None, t |-> 0]

Init ==
    /\ now = 0
    /\ cache = [k \in Keys |-> None]
    /\ lock = NoOwner
    /\ nobj = 0
    /\ state = [o \in Objs |-> Loading]
    /\ last_access = [o \in Objs |-> 0]
    /\ pc = [c \in Callers |-> "idle"]
    /\ cur = [c \in Callers |-> NoCall]
    /\ held = [c \in Callers |-> {}]
    /\ task = [o \in Objs |-> NoTask]
    /\ msgs = {}
    /\ rpc = "idle"
    /\ rcur = NoFinish
    /\ keys_to_remove = {}
    /\ alloc = << >>
    /\ freed = << >>
    /\ spawned = {}
    /\ returned = {}
    /\ gen = [k \in Keys |-> 0]
    /\ skipped = {}
    /\ due = {}
    /\ retry = {}

\* ------------------------------------------------------------ get_context
\* let mut lock = CACHE.lock(); match lock.entry(key): the caller takes the
\* mutex and looks the key up (cur.obj: the occupied entry's object, or None
\* for a vacant one).
GetContextLock(c, k) ==
    /\ pc[c] = "idle"
    /\ CanLock(lock)
    /\ cache[k] = None => nobj < MaxObj
    /\ lock' = c
    /\ pc' = [pc EXCEPT ![c] = "get_context"]
    /\ cur' = [cur EXCEPT ![c] = [key |-> k, obj |-> cache[k]]]
    /\ UNCHANGED << now, cache, nobj, state, last_access, held, task,
                    msgs, rpc, rcur, keys_to_remove, alloc, freed, spawned, returned, gen, skipped, due,
                    retry >>

\* Mutant: get_context waits, holding the mutex, until the load is over.
GetContextOccupiedWaits(c) ==
    /\ pc[c] = "get_context"
    /\ cur[c].obj # None
    /\ state[cur[c].obj] # Loading
    /\ held' = [held EXCEPT ![c] = @ \cup {cur[c].obj}]
    /\ returned' = returned \cup
           {[key |-> cur[c].key, gen |-> gen[cur[c].key], obj |-> cur[c].obj]}
    /\ lock' = NoOwner
    /\ pc' = [pc EXCEPT ![c] = "idle"]
    /\ cur' = [cur EXCEPT ![c] = NoCall]
    /\ UNCHANGED << now, cache, nobj, state, last_access, task, msgs,
                    rpc, rcur, keys_to_remove, alloc,
                    freed, spawned, gen, skipped, due, retry >>

\* Mutant: looking an entry up counts as an access.
GetContextOccupiedRefreshes(c) ==
    /\ pc[c] = "get_context"
    /\ cur[c].obj # None
    /\ last_access' = [last_access EXCEPT ![cur[c].obj] = now]
    /\ held' = [held EXCEPT ![c] = @ \cup {cur[c].obj}]
    /\ returned' = returned \cup
           {[key |-> cur[c].key, gen |-> gen[cur[c].key], obj |-> cur[c].obj]}
    /\ lock' = NoOwner
    /\ pc' = [pc EXCEPT ![c] = "idle"]
    /\ cur' = [cur EXCEPT ![c] = NoCall]
    /\ UNCHANGED << now, cache, nobj, state, task, msgs,
                    rpc, rcur, keys_to_remove, alloc,
                    freed, spawned, gen, skipped, due, retry >>

\* Entry::Occupied(o) => o.get().clone(); the guard is dropped on return.
GetContextOccupied(c) ==
    /\ pc[c] = "get_context"
    /\ cur[c].obj # None
    /\ held' = [held EXCEPT ![c] = @ \cup {cur[c].obj}]
    /\ returned' = returned \cup
           {[key |-> cur[c].key, gen |-> gen[cur[c].key], obj |-> cur[c].obj]}
    /\ lock' = NoOwner
    /\ pc' = [pc EXCEPT ![c] = "idle"]
    /\ cur' = [cur EXCEPT ![c] = NoCall]
    /\ UNCHANGED << now, cache, nobj, state, last_access, task, msgs,
                    rpc, rcur, keys_to_remove, alloc,
                    freed, spawned, gen, skipped, due, retry >>

\* Entry::Vacant(v): LoadContext::default() (Loading, last_access = now),
\* bg.start_loading_image(key, context.clone()), v.insert(context).clone();
\* the guard is dropped on return.
GetContextVacant(c) ==
    /\ pc[c] = "get_context"
    /\ cur[c].obj = None
    /\ nobj < MaxObj
    /\ LET o == nobj + 1
           k == cur[c].key
       IN  /\ nobj' = o
           /\ state' = [state EXCEPT ![o] = Loading]
           /\ last_access' = [last_access EXCEPT ![o] = now]
           /\ task' = [task EXCEPT ![o] = [pc |-> "fetch", key |-> k,
                                           err |-> NoError, t |-> 0]]
           /\ spawned' = spawned \cup {[key |-> k, gen |-> gen[k], obj |-> o]}
           /\ cache' = [cache EXCEPT ![k] = o]
           /\ held' = [held EXCEPT ![c] = @ \cup {o}]
           /\ returned' = returned \cup {[key |-> k, gen |-> gen[k], obj |-> o]}
    /\ lock' = NoOwner
    /\ pc' = [pc EXCEPT ![c] = "idle"]
    /\ cur' = [cur EXCEPT ![c] = NoCall]
    /\ UNCHANGED << now, msgs, rpc, rcur, keys_to_remove,
                    alloc, freed, gen, skipped, due,
                    retry >>

\* ------------------------------------------------- snapshot reads, drop
\* get_texture_id on a clone the caller holds: self.accessed(), which sets
\* last_access to Instant::now(), then self.0.state.read().as_texture(),
\* the value returned.  One step: the caller's clock read and Cell write
\* are not split (those of the mutators set_error and set_texture_id are).
get_texture_id(c, o) ==
    /\ pc[c] = "idle"
    /\ o \in held[c]
    /\ last_access' = [last_access EXCEPT ![o] = now]
    /\ UNCHANGED << now, cache, lock, nobj, state, pc, cur, held, task, msgs,
                    rpc, rcur, keys_to_remove, alloc, freed, spawned,
                    returned, gen, skipped, due, retry >>

\* get_error on a clone the caller holds: self.accessed(), then
\* self.0.state.read().as_error(), the value returned.
get_error(c, o) ==
    /\ pc[c] = "idle"
    /\ o \in held[c]
    /\ last_access' = [last_access EXCEPT ![o] = now]
    /\ UNCHANGED << now, cache, lock, nobj, state, pc, cur, held, task, msgs,
                    rpc, rcur, keys_to_remove, alloc, freed, spawned,
                    returned, gen, skipped, due, retry >>

\* A caller drops a LoadContext clone it holds (Arc's strong count - 1).
DropContext(c, o) ==
    /\ pc[c] = "idle"
    /\ o \in held[c]
    /\ held' = [held EXCEPT ![c] = @ \ {o}]
    /\ UNCHANGED << now, cache, lock, nobj, state, last_access, pc, cur, task, msgs, rpc, rcur, keys_to_remove,
                    alloc, freed, spawned, returned, gen,
                    skipped, due, retry >>

\* ------------------------------------------------------ load_image_async
\* https_get(url).await returned Err(e): context.set_error(e) starts, its
\* accessed() reads the clock.
HttpsGetErr(o, e) ==
    /\ task[o].pc = "fetch"
    /\ task' = [task EXCEPT ![o] = [@ EXCEPT !.pc = "set_error", !.err = e,
                                              !.t = now]]
    /\ UNCHANGED << now, cache, lock, nobj, state, last_access, pc, cur, held,
                    msgs, rpc, rcur, keys_to_remove, alloc, freed, spawned, returned, gen, skipped, due,
                    retry >>

\* https_get(url).await returned Ok((bytes, format)).
HttpsGetOk(o) ==
    /\ task[o].pc = "fetch"
    /\ task' = [task EXCEPT ![o] = [@ EXCEPT !.pc = "decode"]]
    /\ UNCHANGED << now, cache, lock, nobj, state, last_access, pc, cur, held,
                    msgs, rpc, rcur, keys_to_remove, alloc, freed, spawned, returned, gen, skipped, due,
                    retry >>

\* Mutant: the Err arm also falls through to building the ToUIImage.
DecodeErrFallThrough(o) ==
    /\ task[o].pc = "decode"
    /\ task' = [task EXCEPT ![o] = [@ EXCEPT !.pc = "set_error",
                                              !.err = DecodeError, !.t = now]]
    /\ msgs' = msgs \cup {o}
    /\ UNCHANGED << now, cache, lock, nobj, state, last_access, pc, cur, held,
                    rpc, rcur, keys_to_remove, alloc, freed, spawned,
                    returned, gen, skipped, due, retry >>

\* image::load_from_memory returned Err(e): context.set_error(..) starts,
\* its accessed() reads the clock.
DecodeErr(o) ==
    /\ task[o].pc = "decode"
    /\ task' = [task EXCEPT ![o] = [@ EXCEPT !.pc = "set_error",
                                              !.err = DecodeError, !.t = now]]
    /\ UNCHANGED << now, cache, lock, nobj, state, last_access, pc, cur, held,
                    msgs, rpc, rcur, keys_to_remove, alloc, freed, spawned, returned, gen, skipped, due,
                    retry >>

\* Mutant: set_error refreshes the timestamp and leaves the state alone.
set_error_lost(o) ==
    /\ task[o].pc = "set_error"
    /\ last_access' = [last_access EXCEPT ![o] = task[o].t]
    /\ task' = [task EXCEPT ![o] = [@ EXCEPT !.pc = "done"]]
    /\ UNCHANGED << now, cache, lock, nobj, state, pc, cur, held, msgs, rpc,
                    rcur, keys_to_remove, alloc, freed, spawned, returned,
                    gen, skipped, due, retry >>

\* Mutant: a failed load marks every object that is still loading.
set_error_all(o) ==
    /\ task[o].pc = "set_error"
    /\ last_access' = [last_access EXCEPT ![o] = task[o].t]
    /\ state' = [p \in Objs |-> IF p = o \/ (p <= nobj /\ state[p] = Loading)
                                THEN Error(task[o].err) ELSE state[p]]
    /\ task' = [task EXCEPT ![o] = [@ EXCEPT !.pc = "done"]]
    /\ UNCHANGED << now, cache, lock, nobj, pc, cur, held, msgs, rpc,
                    rcur, keys_to_remove, alloc, freed,
                    spawned, returned, gen, skipped, due, retry >>

\* set_error: last_access.set(t); *state.write() = Error(e); the task then
\* returns None and its context is dropped.
set_error(o) ==
    /\ task[o].pc = "set_error"
    /\ last_access' = [last_access EXCEPT ![o] = task[o].t]
    /\ state' = [state EXCEPT ![o] = Error(task[o].err)]
    /\ task' = [task EXCEPT ![o] = [@ EXCEPT !.pc = "done"]]
    /\ UNCHANGED << now, cache, lock, nobj, pc, cur, held, msgs, rpc,
                    rcur, keys_to_remove, alloc, freed,
                    spawned, returned, gen, skipped, due, retry >>

\* Mutant: the task marks the object Loaded as soon as the image is decoded.
DecodeOkMarksLoaded(o) ==
    /\ task[o].pc = "decode"
    /\ task' = [task EXCEPT ![o] = [@ EXCEPT !.pc = "done"]]
    /\ msgs' = msgs \cup {o}
    /\ state' = [state EXCEPT ![o] = Loaded(Len(alloc) + 1)]
    /\ UNCHANGED << now, cache, lock, nobj, last_access, pc, cur, held,
                    rpc, rcur, keys_to_remove, alloc,
                    freed, spawned, returned, gen, skipped, due, retry >>

\* image::load_from_memory returned Ok(image): the task returns
\* Some(ToUIImage {context, key, image}), which travels to the event loop
\* as a user event; the state is not touched.
DecodeOk(o) ==
    /\ task[o].pc = "decode"
    /\ task' = [task EXCEPT ![o] = [@ EXCEPT !.pc = "done"]]
    /\ msgs' = msgs \cup {o}
    /\ UNCHANGED << now, cache, lock, nobj, state, last_access, pc, cur, held,
                    rpc, rcur, keys_to_remove, alloc,
                    freed, spawned, returned, gen, skipped, due, retry >>

\* ------------------------------------------------------------ finish_load
\* Event::UserEvent(msg) with an image-loaded response: finish_load calls
\* frame.alloc_texture(image) and enters set_texture_id, whose accessed()
\* reads the clock.
FinishLoadAlloc(o) ==
    /\ rpc = "idle"
    /\ o \in msgs
    /\ msgs' = msgs \ {o}
    /\ alloc' = Append(alloc, o)
    /\ rcur' = [obj |-> o, tex |-> Len(alloc) + 1, t |-> now]
    /\ rpc' = "finish_load"
    /\ UNCHANGED << now, cache, lock, nobj, state, last_access, pc, cur, held,
                    task, keys_to_remove, freed,
                    spawned, returned, gen, skipped, due, retry >>

\* Event::UserEvent(msg) with a message that carries a clone of a ToUIImage
\* (ToUIImage derives Clone, and is_image_loaded_response(&self) hands out
\* an owned copy): finish_load runs as for any message, while the ToUIImage
\* the clone was made of stays in flight.
FinishLoadAllocClone(o) ==
    /\ rpc = "idle"
    /\ o \in msgs
    /\ Len(alloc) < MaxAlloc
    /\ alloc' = Append(alloc, o)
    /\ rcur' = [obj |-> o, tex |-> Len(alloc) + 1, t |-> now]
    /\ rpc' = "finish_load"
    /\ UNCHANGED << now, cache, lock, nobj, state, last_access, pc, cur, held,
                    task, msgs, keys_to_remove, freed,
                    spawned, returned, gen, skipped, due, retry >>

\* Mutant: set_texture_id refreshes the timestamp and leaves the state
\* alone.
set_texture_id_lost ==
    /\ rpc = "finish_load"
    /\ last_access' = [last_access EXCEPT ![rcur.obj] = rcur.t]
    /\ rpc' = "idle"
    /\ rcur' = NoFinish
    /\ UNCHANGED << now, cache, lock, nobj, state, pc, cur, held, task, msgs,
                    keys_to_remove, alloc, freed, spawned, returned, gen,
                    skipped, due, retry >>

\* set_texture_id: last_access.set(t); *state.write() = Loaded(id); the
\* ToUIImage and the message are dropped.
set_texture_id ==
    /\ rpc = "finish_load"
    /\ last_access' = [last_access EXCEPT ![rcur.obj] = rcur.t]
    /\ state' = [state EXCEPT ![rcur.obj] = Loaded(rcur.tex)]
    /\ rpc' = "idle"
    /\ rcur' = NoFinish
    /\ UNCHANGED << now, cache, lock, nobj, pc, cur, held, task, msgs,
                    keys_to_remove, alloc, freed, spawned,
                    returned, gen, skipped, due, retry >>

\* ---------------------------------------------------------------- cleanup
\* The keys cleanup's scan collects: entries whose last access is stale.
StaleKeys ==
    {k \in Keys : cache[k] # None /\ IsStale(last_access[cache[k]], now)}

\* cleanup takes the mutex and scans the map for stale keys.  (The redraw
\* closure calls cleanup at most once a second; the model lets it run at
\* any time the render loop is idle.)
CleanupScan ==
    /\ rpc = "idle"
    /\ CanLock(lock)
    /\ lock' = Render
    /\ rpc' = "cleanup"
    /\ keys_to_remove' = StaleKeys
    /\ due' = {[key |-> k, obj |-> cache[k]] :
                   k \in {x \in StaleKeys : try_unwrap(cache[x])}}
    /\ retry' = {o \in skipped : Holders(o) = {}}
    /\ UNCHANGED << now, cache, nobj, state, last_access, pc, cur, held, task, msgs, rcur, alloc, freed,
                    spawned, returned, gen, skipped >>

\* Mutant: the reclaimed entry's texture is not freed.
CleanupRemoveNoFree(k) ==
    /\ rpc = "cleanup"
    /\ k \in keys_to_remove
    /\ cache[k] # None
    /\ cache' = [cache EXCEPT ![k] = None]
    /\ gen' = [gen EXCEPT ![k] = @ + 1]
    /\ skipped' = IF try_unwrap(cache[k]) THEN skipped
                  ELSE skipped \cup {cache[k]}
    /\ keys_to_remove' = keys_to_remove \ {k}
    /\ UNCHANGED << now, lock, nobj, state, last_access, pc, cur, held, task,
                    msgs, rpc, rcur, alloc, freed, spawned, returned, due,
                    retry >>

\* Mutant: the entry's texture is freed and the entry stays in the map.
CleanupRemoveKeepsEntry(k) ==
    /\ rpc = "cleanup"
    /\ k \in keys_to_remove
    /\ cache[k] # None
    /\ LET o == cache[k]
       IN  IF try_unwrap(o)
           THEN /\ freed' = IF as_texture(state[o]) # None
                            THEN Append(freed, [tex |-> as_texture(state[o]),
                                                obj |-> o])
                            ELSE freed
                /\ UNCHANGED << cache, gen, skipped >>
           ELSE /\ cache' = [cache EXCEPT ![k] = None]
                /\ gen' = [gen EXCEPT ![k] = @ + 1]
                /\ skipped' = skipped \cup {o}
                /\ UNCHANGED freed
    /\ keys_to_remove' = keys_to_remove \ {k}
    /\ UNCHANGED << now, lock, nobj, state, last_access, pc, cur, held, task,
                    msgs, rpc, rcur, alloc, spawned, returned, due, retry >>

\* Mutant: an entry that cannot be reclaimed is put back into the map.
CleanupRemoveRestores(k) ==
    /\ rpc = "cleanup"
    /\ k \in keys_to_remove
    /\ cache[k] # None
    /\ LET o == cache[k]
       IN  IF try_unwrap(o)
           THEN /\ cache' = [cache EXCEPT ![k] = None]
                /\ gen' = [gen EXCEPT ![k] = @ + 1]
                /\ freed' = IF as_texture(state[o]) # None
                            THEN Append(freed, [tex |-> as_texture(state[o]),
                                                obj |-> o])
                            ELSE freed
                /\ UNCHANGED skipped
           ELSE /\ skipped' = skipped \cup {o}
                /\ UNCHANGED << cache, gen, freed >>
    /\ keys_to_remove' = keys_to_remove \ {k}
    /\ UNCHANGED << now, lock, nobj, state, last_access, pc, cur, held, task,
                    msgs, rpc, rcur, alloc, spawned, returned, due, retry >>

\* One turn of `for key in keys_to_remove`: write.remove(&key), then
\* Arc::try_unwrap; Err: warn and continue; Ok: free_texture(id) when the
\* state is Loaded(id).
CleanupRemove(k) ==
    /\ rpc = "cleanup"
    /\ k \in keys_to_remove
    /\ cache[k] # None
    /\ LET o == cache[k]
       IN  /\ cache' = [cache EXCEPT ![k] = None]
           /\ gen' = [gen EXCEPT ![k] = @ + 1]
           /\ IF try_unwrap(o)
              THEN /\ freed' = IF as_texture(state[o]) # None
                               THEN Append(freed, [tex |-> as_texture(state[o]),
                                                   obj |-> o])
                               ELSE freed
                   /\ UNCHANGED skipped
              ELSE /\ skipped' = skipped \cup {o}
                   /\ UNCHANGED freed
    /\ keys_to_remove' = keys_to_remove \ {k}
    /\ UNCHANGED << now, lock, nobj, state, last_access, pc, cur, held, task, msgs, rpc, rcur, alloc, spawned,
                    returned, due, retry >>

\* cleanup returns: the guard is dropped.
CleanupReturn ==
    /\ rpc = "cleanup"
    /\ keys_to_remove = {}
    /\ lock' = NoOwner
    /\ rpc' = "idle"
    /\ due' = {}
    /\ retry' = {}
    /\ UNCHANGED << now, cache, nobj, state, last_access, pc, cur, held, task, msgs, rcur, keys_to_remove, alloc, freed, spawned,
                    returned, gen, skipped >>

\* ------------------------------------------------------------------ clock
\* Time passes.
Tick ==
    /\ now < MaxTicks * TickSecs
    /\ now' = now + TickSecs
    /\ UNCHANGED << cache, lock, nobj, state, last_access, pc, cur, held, task, msgs, rpc, rcur, keys_to_remove, alloc, freed, spawned, returned, gen, skipped, due,
                    retry >>

Next ==
    \/ \E c \in Callers, k \in Keys : GetContextLock(c, k)
    \/ \E c \in Callers : GetContextOccupied(c)
    \/ \E c \in Callers : GetContextVacant(c)
    \/ \E c \in Callers, o \in Objs : get_texture_id(c, o)
    \/ \E c \in Callers, o \in Objs : get_error(c, o)
    \/ \E c \in Callers, o \in Objs : DropContext(c, o)
    \/ \E o \in Objs, e \in FetchErrors : HttpsGetErr(o, e)
    \/ \E o \in Objs : HttpsGetOk(o)
    \/ \E o \in Objs : DecodeErr(o)
    \/ \E o \in Objs : set_error(o)
    \/ \E o \in Objs : DecodeOk(o)
    \/ \E o \in Objs : FinishLoadAlloc(o)
    \/ set_texture_id
    \/ CleanupScan
    \/ \E k \in Keys : CleanupRemove(k)
    \/ CleanupReturn
    \/ Tick

Spec == Init /\ [][Next]_vars

\* The event loop with any sequence of messages: a ToUIImage may reach it
\* more than once.
NextClone ==
    \/ Next
    \/ \E o \in Objs : FinishLoadAllocClone(o)

SpecClone == Init /\ [][NextClone]_vars

\* ------------------------------------------------------------------ claims
\* The objects created so far.
Live == 1 .. nobj

\* The free_texture calls made with texture id h.
FreesOf(h) == {i \in 1 .. Len(freed) : freed[i].tex = h}

\* The free_texture calls made for object o's entry.
FreesFor(o) == {i \in 1 .. Len(freed) : freed[i].obj = o}

\* finish_load has returned for texture h.
Finalized(h) == h \in 1 .. Len(alloc) /\ ~(rpc = "finish_load" /\ rcur.tex = h)

\* cleanup's loop over keys_to_remove has run to its end.
PassDone == rpc = "cleanup" /\ keys_to_remove = {}

\* C1 (Deduplication): the get_context calls for a key K made while K's
\* entry is not removed in between (the same generation of K) cause exactly
\* one start_loading_image call for K, and all of them return the LoadContext
\* that call was given.
C1_Deduplication ==
    /\ \A s1, s2 \in spawned :
           (s1.key = s2.key /\ s1.gen = s2.gen) => s1 = s2
    /\ \A r \in returned : r \in spawned
    /\ \A r1, r2 \in returned :
           (r1.key = r2.key /\ r1.gen = r2.gen) => r1.obj = r2.obj

\* C1 witness: both callers asked for the same key, hold the same object,
\* and one load was spawned.
C1_Witness ==
    \E k \in Keys :
        /\ cache[k] # None
        /\ \A c \in Callers : cache[k] \in held[c] /\ pc[c] = "idle"
        /\ Cardinality(spawned) = 1

\* C2 (at most one load in flight per key), as claimed: no two load tasks
\* of the same key are fetching or decoding at the same time.
C2_OneLoadInFlightPerKey ==
    \A o1, o2 \in Live :
        (/\ task[o1].key = task[o2].key
         /\ task[o1].pc \in {"fetch", "decode"}
         /\ task[o2].pc \in {"fetch", "decode"}) => o1 = o2

\* C3 (safe eviction): free_texture is called only by a turn of cleanup's
\* loop, with the texture of the entry it removed, and only when no one but
\* the map held that entry's object; so the texture of a Loaded object that
\* anyone still holds has never been freed, and a turn of the loop leaves
\* every object's state as it was.
C3_FreeOnlyWhenSole ==
    /\ [](\A o \in Live :
              (Holders(o) # {} /\ state[o].tag = "Loaded")
                  => FreesOf(state[o].tex) = {})
    /\ [][freed' # freed =>
              /\ rpc = "cleanup"
              /\ \E k \in keys_to_remove :
                     /\ cache[k] # None
                     /\ Holders(cache[k]) = {}
                     /\ state[cache[k]].tag = "Loaded"
                     /\ freed' = Append(freed, [tex |-> state[cache[k]].tex,
                                                obj |-> cache[k]])]_vars
    /\ [][(\E k \in Keys : cache[k] # None /\ cache'[k] = None)
              => state' = state]_vars

\* C3 witness: cleanup removed the entry of a Loaded object a caller still
\* holds, and freed nothing.
C3_Witness ==
    \E o \in skipped :
        /\ state[o].tag = "Loaded"
        /\ \E c \in Callers : o \in held[c]
        /\ freed = << >>

\* C4 (eviction of an unshared stale entry): when a cleanup pass has run
\* its loop, every entry that was stale and unshared when the pass scanned
\* the map is gone from the map; if its state is Loaded(h), free_texture was
\* called exactly once for it, with h, and h was freed once; if its state is
\* Loading or Error, free_texture was not called for it.
C4_StaleUnsharedReclaimed ==
    PassDone =>
        \A d \in due :
            /\ cache[d.key] = None
            /\ state[d.obj].tag = "Loaded" =>
                   /\ Cardinality(FreesFor(d.obj)) = 1
                   /\ FreesFor(d.obj) = FreesOf(state[d.obj].tex)
            /\ state[d.obj].tag # "Loaded" => FreesFor(d.obj) = {}

\* C4 witness: a pass has run its loop over a stale, unshared Loaded entry.
C4_Witness ==
    /\ PassDone
    /\ \E d \in due : state[d.obj].tag = "Loaded"

\* C5 (monotonic lifecycle): once an object's state is Loaded or Error, no
\* step changes it: get_texture_id and get_error keep returning the same
\* handle or message, and never both None again.
C5_TerminalStateStable ==
    [][\A o \in Objs :
           state[o].tag # "Loading" =>
               /\ state'[o].tag = state[o].tag
               /\ as_texture(state'[o]) = as_texture(state[o])
               /\ as_error(state'[o]) = as_error(state[o])]_vars

\* C5 witness: one object is Loaded, another is in Error, and time has
\* passed since.
C5_Witness ==
    /\ now = MaxTicks * TickSecs
    /\ \E o1, o2 \in Live :
           /\ state[o1].tag = "Loaded"
           /\ state[o2].tag = "Error"
           /\ last_access[o1] = 0
           /\ last_access[o2] = 0

\* C6 (retry of a failed reclamation), as claimed: when a cleanup pass has
\* run its loop, every object an earlier pass could not reclaim and that no
\* one held any more when this pass began has had its texture freed, if its
\* state is Loaded(h).
C6_SkippedEntryReclaimedLater ==
    PassDone =>
        \A o \in retry :
            state[o].tag = "Loaded" => FreesOf(state[o].tex) # {}

\* C7 (access refresh), as claimed: no step lowers the last-access
\* timestamp of an object.
C7_TimestampNeverDecreases ==
    [][\A o \in Objs : last_access'[o] >= last_access[o]]_vars

\* C8 (success path): once finish_load has returned for a ToUIImage, with
\* the allocator having returned h, get_texture_id on its LoadContext
\* returns Some(h) and get_error returns None, in every later state.
C8_FinalizedIsLoaded ==
    \A h \in 1 .. Len(alloc) :
        Finalized(h) =>
            /\ as_texture(state[alloc[h]]) = h
            /\ as_error(state[alloc[h]]) = NoError

\* C8 witness: a finalized object is held by a caller who read it after
\* time had passed.
C8_Witness ==
    \E h \in 1 .. Len(alloc) :
        /\ Finalized(h)
        /\ \E c \in Callers : alloc[h] \in held[c]
        /\ last_access[alloc[h]] = MaxTicks * TickSecs

\* C9 (failure path): a load task whose fetch or decode failed sends no
\* ToUIImage and no texture is allocated for its object; once it has
\* returned, the object's state is Error(message): get_error returns
\* Some(message) and get_texture_id returns None.
C9_FailureIsError ==
    \A o \in Live :
        task[o].err # NoError =>
            /\ o \notin msgs
            /\ \A h \in 1 .. Len(alloc) : alloc[h] # o
            /\ ~(rpc = "finish_load" /\ rcur.obj = o)
            /\ task[o].pc = "done" =>
                   /\ as_error(state[o]) = task[o].err
                   /\ as_texture(state[o]) = None

\* C9 witness: one load failed in the fetch and another in the decode, and
\* both tasks have returned.
C9_Witness ==
    \E o1, o2 \in Live :
        /\ task[o1].pc = "done" /\ task[o1].err \in FetchErrors
        /\ task[o2].pc = "done" /\ task[o2].err = DecodeError

C11_SkippedEntryNotRestored ==
    /\ [](\A o \in skipped :
              /\ \A k \in Keys : cache[k] # o
              /\ \A r \in returned :
                     /\ r.obj = o => r.gen < gen[r.key]
                     /\ (r.key = task[o].key /\ r.gen >= gen[r.key])
                            => (r.obj # o /\ r \in spawned))
    /\ [][\A k \in Keys :
              (/\ rpc = "cleanup"
               /\ cache[k] # None
               /\ cache'[k] # cache[k]
               /\ Holders(cache[k]) # {}) =>
                  /\ cache'[k] = None
                  /\ state'[cache[k]] = state[cache[k]]
                  /\ last_access'[cache[k]] = last_access[cache[k]]
                  /\ {c \in Callers : cache[k] \in held'[c]}
                         = {c \in Callers : cache[k] \in held[c]}
                  /\ freed' = freed
                  /\ rpc' = "cleanup"
                  /\ keys_to_remove' = keys_to_remove \ {k}]_vars

\* C11 witness: a caller still holds the object cleanup could not reclaim,
\* and the key is mapped to a fresh Loading object whose load is running.
C11_Witness ==
    \E o \in skipped, c \in Callers :
        /\ o \in held[c]
        /\ cache[task[o].key] \notin {None, o}
        /\ state[cache[task[o].key]] = Loading
        /\ task[cache[task[o].key]].pc = "fetch"
        /\ cache[task[o].key] \in held[c]

\* C12 (two-phase completion): while an object's load is fetching or
\* decoding, and while its ToUIImage is in flight or being finalized, its
\* state is Loading: get_texture_id and get_error both return None.  A
\* successful decode leaves the state as it is.  The state leaves Loading
\* only by the load task's set_error, to Error, or by finish_load's
\* set_texture_id on the render loop, to Loaded.
C12_TwoPhaseCompletion ==
    /\ [](\A o \in Live :
              (\/ task[o].pc \in {"fetch", "decode", "set_error"}
               \/ o \in msgs
               \/ (rpc = "finish_load" /\ rcur.obj = o)) =>
                  /\ state[o] = Loading
                  /\ as_texture(state[o]) = None
                  /\ as_error(state[o]) = NoError)
    /\ [][\A o \in Live :
              (task[o].pc = "decode" /\ task'[o].pc = "done")
                  => (state'[o] = state[o] /\ o \in msgs')]_vars
    /\ [][\A o \in Live :
              (state[o].tag = "Loading" /\ state'[o] # state[o]) =>
                  \/ /\ task[o].pc = "set_error"
                     /\ task'[o].pc = "done"
                     /\ state'[o] = Error(task[o].err)
                  \/ /\ rpc = "finish_load"
                     /\ rcur.obj = o
                     /\ rpc' = "idle"
                     /\ state'[o] = Loaded(rcur.tex)]_vars

\* C12 witness: the load task has returned after a successful decode, its
\* ToUIImage waits for the event loop, a caller holds the object and read it
\* after time had passed, and the state is still Loading.
C12_Witness ==
    \E o \in Live, c \in Callers :
        /\ task[o].pc = "done"
        /\ o \in msgs
        /\ o \in held[c]
        /\ last_access[o] = MaxTicks * TickSecs
        /\ state[o] = Loading

\* C13 (one finalization per load), as claimed: whatever messages reach the
\* event loop, alloc_texture is called at most once for an object, so at
\* most one texture id is ever written into its state.
C13_OneTexturePerObject ==
    \A o \in Live : Cardinality({h \in 1 .. Len(alloc) : alloc[h] = o}) <= 1

\* C14 (guarded access), as claimed: the last-access timestamp of an object
\* is accessed only under that object's guard, so there is no state in which
\* a load task is inside set_error's accessed(), about to write the
\* timestamp of an object, while the render loop, holding no lock the task
\* holds, is about to read it in cleanup's scan of the map or to write it in
\* set_texture_id.
C14_TimestampAccessGuarded ==
    \A o \in Live :
        task[o].pc = "set_error" =>
            /\ ~(/\ rpc = "idle"
                 /\ CanLock(lock)
                 /\ \E k \in Keys : cache[k] = o)
            /\ ~(rpc = "finish_load" /\ rcur.obj = o)

\* C15 (short critical sections): the threads inside get_context or
\* cleanup are at most one, the owner of the CACHE mutex.  A thread inside
\* can always take its next step, whatever the load tasks and the messages
\* are doing, and when the mutex is free get_context on an existing entry
\* and cleanup can start, also while a load is stalled.  A step of a load
\* task's fetch or decode is not a step of a thread inside get_context or
\* cleanup: it leaves the mutex, the callers and the render loop where they
\* are.
C15_ShortCriticalSections ==
    /\ [](({c \in Callers : pc[c] = "get_context"}
               \cup (IF rpc = "cleanup" THEN {Render} ELSE {}))
              = (IF lock = NoOwner THEN {} ELSE {lock}))
    /\ [](\A c \in Callers :
              /\ pc[c] = "get_context" =>
                     ENABLED (GetContextOccupied(c) \/ GetContextVacant(c))
              /\ (pc[c] = "idle" /\ lock = NoOwner) =>
                     \A k \in Keys :
                         cache[k] # None => ENABLED GetContextLock(c, k))
    /\ []((rpc = "cleanup")
              => ENABLED ((\E k \in Keys : CleanupRemove(k)) \/ CleanupReturn))
    /\ []((rpc = "idle" /\ lock = NoOwner) => ENABLED CleanupScan)
    /\ [][\A o \in Objs :
              (/\ task'[o].pc # task[o].pc
               /\ task'[o].pc # "fetch"
               /\ task[o].pc # "set_error") =>
                  /\ task[o].pc \in {"fetch", "decode"}
                  /\ lock' = lock
                  /\ pc' = pc
                  /\ rpc' = rpc
                  /\ cache' = cache]_vars

\* C15 witness: a caller is inside get_context for an entry whose load has
\* been stalled in its fetch while time passed, and the other caller has
\* already got the same entry.
C15_Witness ==
    \E c1, c2 \in Callers, o \in Live :
        /\ c1 # c2
        /\ pc[c1] = "get_context"
        /\ lock = c1
        /\ cur[c1].obj = o
        /\ task[o].pc = "fetch"
        /\ o \in held[c2]
        /\ now = MaxTicks * TickSecs

\* C16 (isolation between keys): a step of an object's load task or of its
\* finish_load changes the state, the timestamp and the task of no other
\* object, and leaves the map alone.  While an object's load is stalled in
\* its fetch the object stays Loading, and every other object goes on as if
\* the stalled load were not there: its own load and finish_load can take
\* their next step, an absent key can be looked up, and a key cleanup has
\* collected can be removed.
C16_KeyIsolation ==
    /\ [][\A o \in Live :
              (\/ (task'[o] # task[o] /\ task[o].pc # "none")
               \/ (rpc = "idle" /\ rpc' = "finish_load" /\ rcur'.obj = o)
               \/ (rpc = "finish_load" /\ rpc' = "idle" /\ rcur.obj = o)) =>
                  /\ cache' = cache
                  /\ \A p \in Objs \ {o} :
                         /\ state'[p] = state[p]
                         /\ last_access'[p] = last_access[p]
                         /\ task'[p] = task[p]]_vars
    /\ [](\A o \in Live :
              task[o].pc = "fetch" =>
                  /\ state[o] = Loading
                  /\ \A p \in Live \ {o} :
                         /\ task[p].pc = "fetch" =>
                                /\ ENABLED HttpsGetOk(p)
                                /\ \A e \in FetchErrors :
                                       ENABLED HttpsGetErr(p, e)
                         /\ task[p].pc = "decode" =>
                                (ENABLED DecodeOk(p) /\ ENABLED DecodeErr(p))
                         /\ task[p].pc = "set_error" => ENABLED set_error(p)
                         /\ (p \in msgs /\ rpc = "idle") =>
                                ENABLED FinishLoadAlloc(p)
                         /\ (rpc = "finish_load" /\ rcur.obj = p) =>
                                ENABLED set_texture_id
                  /\ \A k \in Keys \ {task[o].key} :
                         /\ (lock = NoOwner /\ nobj < MaxObj) =>
                                \A c \in Callers :
                                    pc[c] = "idle" => ENABLED GetContextLock(c, k)
                         /\ (rpc = "cleanup" /\ k \in keys_to_remove) =>
                                ENABLED CleanupRemove(k))

\* C16 witness: one key's load is still stalled in its fetch, its object
\* Loading, after the other key's entry was created, loaded, finalized,
\* evicted and its texture freed.
C16_Witness ==
    \E o, p \in Live :
        /\ task[o].pc = "fetch"
        /\ state[o] = Loading
        /\ task[p].key # task[o].key
        /\ state[p].tag = "Loaded"
        /\ cache[task[p].key] = None
        /\ FreesFor(p) # {}

\* C17 (loaded entries stay in the map), as claimed: every object whose
\* state is Loaded(h), with h not freed, is the entry the map holds for its
\* key, so every allocated texture that has not been freed can be reached
\* from the map.
C17_LoadedUnfreedIsCached ==
    \A o \in Live :
        (state[o].tag = "Loaded" /\ FreesOf(state[o].tex) = {})
            => cache[task[o].key] = o

\* C18 (no double free): free_texture is called only with texture ids
\* alloc_texture returned, at most once with each, and once it has been
\* called with an id no object that is in the map or that anyone holds
\* reports that id through get_texture_id.
C18_NoDoubleFree ==
    /\ \A i \in 1 .. Len(freed) : freed[i].tex \in 1 .. Len(alloc)
    /\ \A h \in 1 .. Len(alloc) :
           /\ Cardinality(FreesOf(h)) <= 1
           /\ FreesOf(h) # {} =>
                  \A o \in Live :
                      (Holders(o) # {} \/ \E k \in Keys : cache[k] = o)
                          => as_texture(state[o]) # h

\* C18 witness: the texture of a key's entry was freed, and a caller holds
\* the object a later get_context created for the key, Loaded with another
\* texture.
C18_Witness ==
    \E i \in 1 .. Len(freed), o \in Live, c \in Callers :
        /\ o # freed[i].obj
        /\ task[o].key = task[freed[i].obj].key
        /\ o \in held[c]
        /\ cache[task[o].key] = o
        /\ state[o].tag = "Loaded"
        /\ state[o].tex # freed[i].tex

\* C19 (lookup is not an access): a step of get_context leaves the state
\* and the timestamp of every existing object and every occupied entry of
\* the map as they were; a new object starts Loading with the current time
\* as its timestamp; the timestamp of an existing object changes only in a
\* get_texture_id or get_error of a caller that holds it, in its task's
\* set_error or in its finish_load's set_texture_id; and cleanup's scan
\* collects every entry whose timestamp is more than 60 s old.  So an entry
\* that is looked up and never read or written is collected by the first
\* scan more than 60 s after its creation.
C19_LookupDoesNotRefresh ==
    /\ [][pc' # pc =>
              /\ \A o \in Live :
                     /\ state'[o] = state[o]
                     /\ last_access'[o] = last_access[o]
              /\ \A k \in Keys : cache[k] # None => cache'[k] = cache[k]]_vars
    /\ [][nobj' # nobj =>
              /\ nobj' = nobj + 1
              /\ state'[nobj'] = Loading
              /\ last_access'[nobj'] = now]_vars
    /\ [][\A o \in Live :
              last_access'[o] # last_access[o] =>
                  \/ /\ \E c \in Callers : pc[c] = "idle" /\ o \in held[c]
                     /\ last_access'[o] = now
                     /\ state' = state
                     /\ pc' = pc
                     /\ task' = task
                     /\ rpc' = rpc
                  \/ /\ task[o].pc = "set_error"
                     /\ task'[o].pc = "done"
                  \/ /\ rpc = "finish_load"
                     /\ rcur.obj = o
                     /\ rpc' = "idle"]_vars
    /\ [][(rpc = "idle" /\ rpc' = "cleanup") =>
              \A k \in Keys :
                  (cache[k] # None /\ now - last_access[cache[k]] > StaleSecs)
                      => k \in keys_to_remove']_vars

\* C19 witness: both callers got the entry from get_context, the second by
\* looking it up after time had passed; the entry is still Loading with the
\* timestamp of its creation, and cleanup has collected its key.
C19_Witness ==
    \E o \in Live :
        /\ \A c \in Callers : o \in held[c]
        /\ Cardinality({r \in returned : r.obj = o}) = 1
        /\ state[o] = Loading
        /\ task[o].pc = "fetch"
        /\ last_access[o] = 0
        /\ now > StaleSecs
        /\ rpc = "cleanup"
        /\ task[o].key \in keys_to_remove

====
